---- MODULE Spec2Model ----
(***************************************************************************)
(* FinLife front-end glue.                                                 *)
(*                                                                         *)
(* Part 1: QuickOpController (dashboard-actions.js, the catalog-rebuilding *)
(* revision kept in src/backup_prod_db.sh lines 186-365): the dropdown,    *)
(* the modal, field visibility and the category select.                    *)
(* Part 2: PushSubscriptionManager (src/static/js/push-register.js): the   *)
(* asynchronous operations of window.finlifePush.                          *)
(* Part 3: the service worker (src/static/js/service-worker.js): the push  *)
(* listener and the notificationclick listener.                            *)
(* Part 4: the production deploy script (src/deploy_prod.sh): its steps    *)
(* under set -e and the health check loop.                                 *)
(*                                                                         *)
(* The host page's markup is not part of the sources.  The model assumes   *)
(* the elements looked up by init() exist, that the wrapper (trigger       *)
(* button and menu) and the backdrop (dialog and form) are disjoint        *)
(* subtrees, that an element carrying the hidden attribute, or lying in a  *)
(* backdrop without the qop-open class, receives no click, and that the    *)
(* category select starts as the placeholder followed by the catalog.      *)
(***************************************************************************)
EXTENDS Integers, Sequences, FiniteSets, TLC

VARIABLES dom, allCategoryOptions, lastEvent, inv, platform, ui, sw, deploy

vars == <<dom, allCategoryOptions, lastEvent, inv, platform, ui, sw, deploy>>

qopVars == <<dom, allCategoryOptions, lastEvent>>

pushVars == <<inv, platform, ui>>

swVars == <<sw>>

deployVars == <<deploy>>

\* ------------------------------------------------------------------ bounds
MaxCatalog == 3

\* ------------------------------------------------------------ QuickOp data
OperationTypes == {"INCOME", "EXPENSE", "TRANSFER"}

CategoryTypes == {"INCOME", "EXPENSE"}

TITLES == [t \in OperationTypes |->
             CASE t = "INCOME" -> "Dohod"
               [] t = "EXPENSE" -> "Rashod"
               [] t = "TRANSFER" -> "Peremeshchenie"]

\* the "no category" option of the select: value '', no data-type attribute
Placeholder == [value |-> "", label |-> "Bez kategorii"]

\* values a user can leave in a text/date input
InputValues == {"", "x"}

Displays == {"", "none"}

\* the catalogs init() can collect: entry i is the i-th option[data-type]
Catalogs ==
  UNION {[1..n -> CategoryTypes] : n \in 0..MaxCatalog}

CatalogOf(f) ==
  [i \in 1..Len(f) |-> [value |-> ToString(i), label |-> ToString(i), type |-> f[i]]]

\* -------------------------------------------------- the select element
\* select.value = v: the first option whose value is v becomes selected,
\* none (selectedIndex -1, here 0) when no option has that value
SetSelectValue(options, v) ==
  IF \E i \in 1..Len(options) : options[i].value = v
  THEN CHOOSE i \in 1..Len(options) :
         /\ options[i].value = v
         /\ \A j \in 1..(i-1) : options[j].value # v
  ELSE 0

\* select.value read back: value of the selected option, '' when none
SelectValue(d) ==
  IF d.selectedIndex = 0 THEN "" ELSE d.options[d.selectedIndex].value

\* qopCategory.removeChild(qopCategory.options[1]): JS index 1 is position 2;
\* removing the selected option of a drop-down select makes the first
\* option selected again
RemoveOption1(d) ==
  [d EXCEPT
     !.options = <<d.options[1]>> \o SubSeq(d.options, 3, Len(d.options)),
     !.selectedIndex = IF d.selectedIndex = 2 THEN 1
                       ELSE IF d.selectedIndex > 2 THEN d.selectedIndex - 1
                       ELSE d.selectedIndex]

\* mutant: the loop that empties the select is missing
RemoveExtraOptions_None(d) == d

\* while (qopCategory.options.length > 1) removeChild(options[1])
RECURSIVE RemoveExtraOptions(_)
RemoveExtraOptions(d) ==
  IF Len(d.options) > 1 THEN RemoveExtraOptions(RemoveOption1(d)) ELSE d

\* mutant: the type test of the forEach is missing, every entry is appended
AppendMatching_All(options, cats, type) ==
  options \o [i \in 1..Len(cats) |-> [value |-> cats[i].value, label |-> cats[i].label]]

\* allCategoryOptions.forEach: append an option for each entry of the type
RECURSIVE AppendMatching(_, _, _)
AppendMatching(options, cats, type) ==
  IF cats = <<>> THEN options
  ELSE AppendMatching(
         IF Head(cats).type = type
         THEN Append(options, [value |-> Head(cats).value, label |-> Head(cats).label])
         ELSE options,
         Tail(cats), type)

\* mutant: the category row is shown for every type
filterCategories_RowShown(d, type) ==
  LET isTransfer == type = "TRANSFER"
      d1 == [d EXCEPT !.categoryRowDisplay = ""]
  IN IF isTransfer
     THEN [d1 EXCEPT !.selectedIndex = SetSelectValue(d1.options, "")]
     ELSE LET d2 == RemoveExtraOptions(d1)
              opts == AppendMatching(d2.options, allCategoryOptions, type)
          IN [d2 EXCEPT !.options = opts,
                        !.selectedIndex = SetSelectValue(opts, "")]

\* mutant: no early return for TRANSFER, the select is rebuilt for it too
filterCategories_RebuildsTransfer(d, type) ==
  LET isTransfer == type = "TRANSFER"
      d1 == [d EXCEPT !.categoryRowDisplay = IF isTransfer THEN "none" ELSE ""]
      d2 == RemoveExtraOptions(d1)
      opts == AppendMatching(d2.options, allCategoryOptions, type)
  IN [d2 EXCEPT !.options = opts, !.selectedIndex = SetSelectValue(opts, "")]

filterCategories(d, type) ==
  LET isTransfer == type = "TRANSFER"
      d1 == [d EXCEPT !.categoryRowDisplay = IF isTransfer THEN "none" ELSE ""]
  IN IF isTransfer
     THEN [d1 EXCEPT !.selectedIndex = SetSelectValue(d1.options, "")]
     ELSE LET d2 == RemoveExtraOptions(d1)
              opts == AppendMatching(d2.options, allCategoryOptions, type)
          IN [d2 EXCEPT !.options = opts,
                        !.selectedIndex = SetSelectValue(opts, "")]

\* mutant: the "Reset fields" block is missing
openModal_NoReset(d, type) ==
  LET isTransfer == type = "TRANSFER"
      d1 == [d EXCEPT
               !.menuHidden = TRUE,
               !.ariaExpanded = "false",
               !.qopType = type,
               !.qopTitle = TITLES[type],
               !.walletRowDisplay = IF isTransfer THEN "none" ELSE "",
               !.fromRowDisplay = IF isTransfer THEN "" ELSE "none",
               !.toRowDisplay = IF isTransfer THEN "" ELSE "none",
               !.qopWalletDisabled = isTransfer,
               !.qopFromDisabled = ~isTransfer,
               !.qopToDisabled = ~isTransfer]
      d2 == filterCategories(d1, type)
  IN [d2 EXCEPT !.qopOpen = TRUE, !.focus = "qopAmount"]

\* mutant: the wallet selects are disabled for the hidden rows and never
\* enabled again
openModal_StickyDisabled(d, type) ==
  LET isTransfer == type = "TRANSFER"
      d1 == [d EXCEPT
               !.menuHidden = TRUE,
               !.ariaExpanded = "false",
               !.qopType = type,
               !.qopTitle = TITLES[type],
               !.walletRowDisplay = IF isTransfer THEN "none" ELSE "",
               !.fromRowDisplay = IF isTransfer THEN "" ELSE "none",
               !.toRowDisplay = IF isTransfer THEN "" ELSE "none",
               !.qopWalletDisabled = @ \/ isTransfer,
               !.qopFromDisabled = @ \/ ~isTransfer,
               !.qopToDisabled = @ \/ ~isTransfer]
      d2 == filterCategories(d1, type)
  IN [d2 EXCEPT
        !.qopAmount = "",
        !.qopDesc = "",
        !.selectedIndex = SetSelectValue(d2.options, ""),
        !.qopOccurredAt = "",
        !.qopOpen = TRUE,
        !.focus = "qopAmount"]

openModal(d, type) ==
  LET isTransfer == type = "TRANSFER"
      d1 == [d EXCEPT
               !.menuHidden = TRUE,
               !.ariaExpanded = "false",
               !.qopType = type,
               !.qopTitle = TITLES[type],
               !.walletRowDisplay = IF isTransfer THEN "none" ELSE "",
               !.fromRowDisplay = IF isTransfer THEN "" ELSE "none",
               !.toRowDisplay = IF isTransfer THEN "" ELSE "none",
               !.qopWalletDisabled = isTransfer,
               !.qopFromDisabled = ~isTransfer,
               !.qopToDisabled = ~isTransfer]
      d2 == filterCategories(d1, type)
  IN [d2 EXCEPT
        !.qopAmount = "",
        !.qopDesc = "",
        !.selectedIndex = SetSelectValue(d2.options, ""),
        !.qopOccurredAt = "",
        !.qopOpen = TRUE,
        !.focus = "qopAmount"]

\* mutant: closing also clears the hidden type input
closeModal_ClearsType(d) ==
  [d EXCEPT !.qopOpen = FALSE, !.focus = "btn", !.qopType = ""]

\* mutant: classList.toggle instead of classList.remove
closeModal_Toggle(d) ==
  [d EXCEPT !.qopOpen = ~d.qopOpen, !.focus = "btn"]

closeModal(d) ==
  [d EXCEPT !.qopOpen = FALSE, !.focus = "btn"]

\* mutant: the document click listener is missing
documentClick_Never(d, inWrapper) == d

\* document click listener, reached by every click that bubbles to the
\* document; inWrapper is wrapper.contains(e.target)
documentClick(d, inWrapper) ==
  IF ~inWrapper THEN [d EXCEPT !.menuHidden = TRUE, !.ariaExpanded = "false"] ELSE d

\* backdrop click listener; inDialog is dialog.contains(e.target)
backdropClick(d, inDialog) ==
  IF ~inDialog THEN closeModal(d) ELSE d

\* what the history variable remembers of the state an event found
Dirty(d) ==
  /\ d.qopAmount # ""
  /\ d.qopDesc # ""
  /\ d.qopOccurredAt # ""
  /\ SelectValue(d) # ""

Event(op, type) ==
  [op |-> op, type |-> type, prevType |-> dom.qopType, prevDirty |-> Dirty(dom),
   prevOpen |-> dom.qopOpen, prevMenuHidden |-> dom.menuHidden]

NoEvent ==
  [op |-> "none", type |-> "", prevType |-> "", prevDirty |-> FALSE,
   prevOpen |-> FALSE, prevMenuHidden |-> TRUE]

\* ------------------------------------------------------------------- Init
InitQop ==
  /\ \E f \in Catalogs : allCategoryOptions = CatalogOf(f)
  /\ \E w, f, t, c \in Displays, wd, fd, td \in BOOLEAN :
       dom = [menuHidden |-> TRUE,
              ariaExpanded |-> "false",
              qopOpen |-> FALSE,
              qopType |-> "",
              qopTitle |-> "",
              walletRowDisplay |-> w,
              fromRowDisplay |-> f,
              toRowDisplay |-> t,
              categoryRowDisplay |-> c,
              qopWalletDisabled |-> wd,
              qopFromDisabled |-> fd,
              qopToDisabled |-> td,
              options |-> <<Placeholder>> \o
                          [i \in 1..Len(allCategoryOptions) |->
                             [value |-> allCategoryOptions[i].value,
                              label |-> allCategoryOptions[i].label]],
              selectedIndex |-> 1,
              qopAmount |-> "",
              qopDesc |-> "",
              qopOccurredAt |-> "",
              focus |-> "none"]
  /\ lastEvent = NoEvent

\* ---------------------------------------------------------------- actions
\* click on .quick-op-btn: toggles the menu, stopPropagation keeps the
\* click from the document listener
BtnClick ==
  /\ LET isOpen == ~dom.menuHidden
     IN dom' = [dom EXCEPT !.menuHidden = isOpen,
                           !.ariaExpanded = IF ~isOpen THEN "true" ELSE "false"]
  /\ lastEvent' = Event("btn", "")
  /\ UNCHANGED <<allCategoryOptions, pushVars, swVars, deployVars>>

\* click on a[data-type] of the menu; the click then bubbles to the
\* document listener with a target inside the wrapper
MenuItemClick(type) ==
  /\ ~dom.menuHidden
  /\ dom' = documentClick(openModal(dom, type), TRUE)
  /\ lastEvent' = Event("openModal", type)
  /\ UNCHANGED <<allCategoryOptions, pushVars, swVars, deployVars>>

\* click outside the wrapper that no modal listener reacts to: on the page
\* or inside the dialog (bubbles through the backdrop listener)
OutsideClick(target) ==
  /\ target = "dialog" => dom.qopOpen
  /\ dom' = documentClick(
              IF target = "dialog" THEN backdropClick(dom, TRUE) ELSE dom, FALSE)
  /\ lastEvent' = Event("outside", "")
  /\ UNCHANGED <<allCategoryOptions, pushVars, swVars, deployVars>>

\* click on the backdrop outside the dialog
BackdropClick ==
  /\ dom.qopOpen
  /\ dom' = documentClick(backdropClick(dom, FALSE), FALSE)
  /\ lastEvent' = Event("backdrop", "")
  /\ UNCHANGED <<allCategoryOptions, pushVars, swVars, deployVars>>

\* click on #qopClose or #qopCancelBtn: closeModal, then the backdrop
\* listener (the control lies inside the dialog or beside it), then the
\* document listener
CloseControlClick(control, inDialog) ==
  /\ dom.qopOpen
  /\ dom' = documentClick(backdropClick(closeModal(dom), inDialog), FALSE)
  /\ lastEvent' = Event(control, "")
  /\ UNCHANGED <<allCategoryOptions, pushVars, swVars, deployVars>>

\* mutant: Escape closes the dropdown and the modal at once
KeydownEscape_ClosesBoth ==
  /\ dom' = closeModal([dom EXCEPT !.menuHidden = TRUE, !.ariaExpanded = "false"])
  /\ lastEvent' = Event("escape", "")
  /\ UNCHANGED <<allCategoryOptions, pushVars, swVars, deployVars>>

\* keydown with e.key === 'Escape'
KeydownEscape ==
  /\ dom' = IF ~dom.qopOpen
            THEN [dom EXCEPT !.menuHidden = TRUE, !.ariaExpanded = "false"]
            ELSE closeModal(dom)
  /\ lastEvent' = Event("escape", "")
  /\ UNCHANGED <<allCategoryOptions, pushVars, swVars, deployVars>>

\* the user edits a field of the visible form
UserInput(field, v) ==
  /\ dom.qopOpen
  /\ v # ""
  /\ dom' = CASE field = "qopAmount" -> [dom EXCEPT !.qopAmount = v]
              [] field = "qopDesc" -> [dom EXCEPT !.qopDesc = v]
              [] field = "qopOccurredAt" -> [dom EXCEPT !.qopOccurredAt = v]
  /\ lastEvent' = Event("input", "")
  /\ UNCHANGED <<allCategoryOptions, pushVars, swVars, deployVars>>

\* the user picks an option of the visible category select
UserSelectCategory(i) ==
  /\ dom.qopOpen
  /\ dom.categoryRowDisplay = ""
  /\ i \in 1..Len(dom.options)
  /\ i # dom.selectedIndex
  /\ dom' = [dom EXCEPT !.selectedIndex = i]
  /\ lastEvent' = Event("input", "")
  /\ UNCHANGED <<allCategoryOptions, pushVars, swVars, deployVars>>

NextQop ==
  \/ BtnClick
  \/ \E type \in OperationTypes : MenuItemClick(type)
  \/ \E target \in {"page", "dialog"} : OutsideClick(target)
  \/ BackdropClick
  \/ \E control \in {"qopClose", "qopCancelBtn"}, inDialog \in BOOLEAN :
       CloseControlClick(control, inDialog)
  \/ KeydownEscape
  \/ \E field \in {"qopAmount", "qopDesc", "qopOccurredAt"}, v \in InputValues :
       UserInput(field, v)
  \/ \E i \in 1..(MaxCatalog + 1) : UserSelectCategory(i)

\* ==================================================== PushSubscriptionManager
\* An invocation of an async function of window.finlifePush is a record of
\* inv: op is the function called, fn the function whose body is running
\* (toggle hands over to subscribe or unsubscribe), pc the await at which it
\* is suspended, "done" once its promise is fulfilled, "failed" once it is
\* rejected.  An await of an already settled value (getRegistration on an
\* unsupported platform) resumes in a microtask, before any other event, and
\* is part of the step that reaches it.

MaxInvocations == 2

MaxCalls == 1

PostOutcomes == {"ok", "not ok", "rejected"}

UserOps == {"subscribe", "unsubscribe", "toggle", "sendTest"}

Settled == {"done", "failed"}

\* document.getElementById('pushToggleBtn') / ('pushStatus') as rendered
updateUI(u, state) ==
  CASE state = "subscribed" ->
         [u EXCEPT !.rendered = state, !.textContent = "Disable notifications",
                   !.className = "danger", !.status = "Push enabled"]
    [] state = "prompt" ->
         [u EXCEPT !.rendered = state, !.textContent = "Enable push",
                   !.className = "", !.status = ""]
    [] state = "denied" ->
         [u EXCEPT !.rendered = state, !.textContent = "Notifications blocked",
                   !.disabled = TRUE, !.className = "secondary",
                   !.status = "Allow in browser settings"]
    [] OTHER ->
         [u EXCEPT !.rendered = state, !.textContent = "Enable push",
                   !.className = "", !.status = "Push not supported",
                   !.disabled = TRUE]

\* shown is the last state the invocation passed to updateUI, trace the
\* platform and network calls issued by the function body that is running
NewInvocation(op) ==
  [op |-> op, fn |-> op, pc |-> "start", raced |-> FALSE, result |-> "",
   shown |-> "", trace |-> <<>>]

Finish(r, result) == [r EXCEPT !.pc = "done", !.result = result]

Reject(r) == [r EXCEPT !.pc = "failed", !.result = "rejected"]

\* the invocation calls updateUI(state)
Render(r, u, state) ==
  [rec |-> [r EXCEPT !.shown = state], ui |-> updateUI(u, state)]

Issue(r, pc, calls) == [r EXCEPT !.pc = pc, !.trace = @ \o calls]

\* the catch block of subscribe(); permission is Notification.permission
subscribeCatch(r, u, permission) ==
  IF permission = "denied"
  THEN Render(Finish(r, "rendered"), u, "denied")
  ELSE [rec |-> Finish(r, "alert:subscribe failed"), ui |-> u]

\* a rejection that reaches the top of the running function: init() catches
\* it and renders "prompt" (unless the race is already settled), the other
\* functions reject
Throw(r, u) ==
  IF r.op = "init"
  THEN IF r.raced
       THEN [rec |-> Finish(r, r.result), ui |-> u]
       ELSE Render(Finish(r, "rendered"), u, "prompt")
  ELSE [rec |-> Reject(r), ui |-> u]

\* fn is called: getRegistration() runs up to its first await, or returns
\* null when the platform lacks serviceWorker or PushManager
Call(r, fn, u) ==
  IF platform.supported
  THEN [rec |-> [r EXCEPT !.fn = fn, !.pc = "getRegistrations",
                          !.trace = <<"getRegistrations">>],
        ui |-> u]
  ELSE IF fn = "unsubscribe"
       THEN Render(Finish([r EXCEPT !.fn = fn, !.trace = <<>>], "rendered"), u, "prompt")
       ELSE [rec |-> Finish([r EXCEPT !.fn = "subscribe", !.trace = <<>>],
                            "alert:not supported"),
             ui |-> u]

Put(i, out) ==
  /\ inv' = [inv EXCEPT ![i] = out.rec]
  /\ ui' = out.ui

Suspended(i, pc) == i \in 1..Len(inv) /\ inv[i].pc = pc

\* the sets Init draws the platform from
Permissions == {"default", "granted", "denied"}

Platforms ==
  {p \in [supported : BOOLEAN, permission : Permissions, vapidKey : BOOLEAN,
          registered : BOOLEAN, subscription : BOOLEAN] :
     /\ p.subscription => p.supported /\ p.registered /\ p.permission = "granted"
     /\ p.registered => p.supported}

BlankUI ==
  [rendered |-> "none", textContent |-> "", className |-> "",
   disabled |-> FALSE, status |-> ""]

\* mutant: the Notification.permission test of init() is missing
init_NoDeniedCheck(p) ==
  IF ~p.supported
  THEN Render(Finish(NewInvocation("init"), "rendered"), BlankUI, "unsupported")
  ELSE [rec |-> Issue(NewInvocation("init"), "getRegistrations", <<"getRegistrations">>),
        ui |-> BlankUI]

\* init(), run when the script is loaded, up to its first await
init(p) ==
  IF ~p.supported
  THEN Render(Finish(NewInvocation("init"), "rendered"), BlankUI, "unsupported")
  ELSE IF p.permission = "denied"
  THEN Render(Finish(NewInvocation("init"), "rendered"), BlankUI, "denied")
  ELSE [rec |-> Issue(NewInvocation("init"), "getRegistrations", <<"getRegistrations">>),
        ui |-> BlankUI]

InitPush ==
  /\ platform \in Platforms
  /\ inv = <<init(platform).rec>>
  /\ ui = init(platform).ui

\* a click handler of the page calls finlifePush.subscribe / unsubscribe /
\* toggle / sendTest; nothing in the module refuses a call
Invoke(op) ==
  /\ op \in UserOps
  /\ Len(inv) < MaxInvocations + 1
  /\ LET r == NewInvocation(op)
         out == IF op = "sendTest"
                THEN [rec |-> Issue(r, "postTest", <<"test">>), ui |-> ui]
                ELSE Call(r, op, ui)
     IN /\ inv' = Append(inv, out.rec)
        /\ ui' = out.ui
  /\ UNCHANGED <<platform, qopVars, swVars, deployVars>>

\* navigator.serviceWorker.getRegistrations() resolves
ResolveGetRegistrations(i) ==
  /\ Suspended(i, "getRegistrations")
  /\ inv' = [inv EXCEPT ![i] = IF platform.registered
                               THEN Issue(@, "ready", <<>>)
                               ELSE Issue(@, "register", <<"register">>)]
  /\ UNCHANGED <<ui, platform, qopVars, swVars, deployVars>>

\* navigator.serviceWorker.register('/service-worker.js') settles
ResolveRegister(i, ok) ==
  /\ Suspended(i, "register")
  /\ IF ok
     THEN /\ inv' = [inv EXCEPT ![i].pc = "ready"]
          /\ platform' = [platform EXCEPT !.registered = TRUE]
          /\ UNCHANGED ui
     ELSE /\ Put(i, Throw(inv[i], ui))
          /\ UNCHANGED platform
  /\ UNCHANGED <<qopVars, swVars, deployVars>>

\* mutant: subscribe() does not test the decoded key
ResolveReady_NoKeyCheck(i) ==
  /\ Suspended(i, "ready")
  /\ LET r == inv[i]
     IN IF r.fn = "subscribe"
        THEN Put(i, [rec |-> Issue(r, "pmSubscribe", <<"key", "subscribe">>), ui |-> ui])
        ELSE Put(i, [rec |-> Issue(r, "getSubscription", <<"getSubscription">>), ui |-> ui])
  /\ UNCHANGED <<platform, qopVars, swVars, deployVars>>

\* navigator.serviceWorker.ready resolves: getRegistration() returns reg;
\* subscribe() goes on to getApplicationServerKey() and pushManager.subscribe
ResolveReady(i) ==
  /\ Suspended(i, "ready")
  /\ LET r == inv[i]
     IN IF r.fn = "subscribe"
        THEN IF ~platform.vapidKey
             THEN Put(i, [rec |-> Finish(Issue(r, r.pc, <<"key">>), "alert:no VAPID key"),
                          ui |-> ui])
             ELSE Put(i, [rec |-> Issue(r, "pmSubscribe", <<"key", "subscribe">>), ui |-> ui])
        ELSE Put(i, [rec |-> Issue(r, "getSubscription", <<"getSubscription">>), ui |-> ui])
  /\ UNCHANGED <<platform, qopVars, swVars, deployVars>>

\* mutant: the probe of init() renders although the race is settled
ResolveGetSubscription_IgnoresRace(i) ==
  /\ Suspended(i, "getSubscription")
  /\ LET r == inv[i]
         sub == platform.subscription
     IN CASE r.fn = "unsubscribe" ->
               IF ~sub
               THEN Put(i, Render(Finish(r, "rendered"), ui, "prompt"))
               ELSE Put(i, [rec |-> Issue(r, "subUnsubscribe", <<"unsubscribe">>), ui |-> ui])
          [] r.fn = "toggle" ->
               Put(i, Call(r, IF sub THEN "unsubscribe" ELSE "subscribe", ui))
          [] r.fn = "init" ->
               Put(i, Render(Finish(r, "rendered"), ui,
                             IF sub THEN "subscribed" ELSE "prompt"))
  /\ UNCHANGED <<platform, qopVars, swVars, deployVars>>

\* reg.pushManager.getSubscription() resolves: getCurrentSubscription() returns
ResolveGetSubscription(i) ==
  /\ Suspended(i, "getSubscription")
  /\ LET r == inv[i]
         sub == platform.subscription
     IN CASE r.fn = "unsubscribe" ->
               IF ~sub
               THEN Put(i, Render(Finish(r, "rendered"), ui, "prompt"))
               ELSE Put(i, [rec |-> Issue(r, "subUnsubscribe", <<"unsubscribe">>), ui |-> ui])
          [] r.fn = "toggle" ->
               Put(i, Call(r, IF sub THEN "unsubscribe" ELSE "subscribe", ui))
          [] r.fn = "init" ->
               IF r.raced
               THEN Put(i, [rec |-> Finish(r, r.result), ui |-> ui])
               ELSE Put(i, Render(Finish(r, "rendered"), ui,
                                  IF sub THEN "subscribed" ELSE "prompt"))
  /\ UNCHANGED <<platform, qopVars, swVars, deployVars>>

\* the 5000 ms timer of init() fires before the probe settled
InitTimeout(i) ==
  /\ i \in 1..Len(inv)
  /\ inv[i].op = "init"
  /\ inv[i].pc \notin Settled
  /\ ~inv[i].raced
  /\ Put(i, Render([inv[i] EXCEPT !.raced = TRUE, !.result = "rendered"], ui, "prompt"))
  /\ UNCHANGED <<platform, qopVars, swVars, deployVars>>

\* reg.pushManager.subscribe(...) settles: the user grants or refuses the
\* permission, or the push service fails
ResolvePmSubscribe(i, outcome) ==
  /\ Suspended(i, "pmSubscribe")
  /\ CASE outcome = "granted" ->
            /\ platform.permission # "denied"
            /\ platform' = [platform EXCEPT !.permission = "granted",
                                            !.subscription = TRUE]
            /\ inv' = [inv EXCEPT ![i] = Issue(@, "postSubscribe", <<"post">>)]
            /\ UNCHANGED ui
       [] outcome = "denied" ->
            /\ platform.permission # "granted"
            /\ platform' = [platform EXCEPT !.permission = "denied"]
            /\ Put(i, subscribeCatch(inv[i], ui, "denied"))
       [] outcome = "error" ->
            /\ platform.permission # "denied"
            /\ Put(i, subscribeCatch(inv[i], ui, platform.permission))
            /\ UNCHANGED platform
  /\ UNCHANGED <<qopVars, swVars, deployVars>>

\* mutant: resp.ok is not tested
ResolvePostSubscribe_NoOkTest(i, outcome) ==
  /\ Suspended(i, "postSubscribe")
  /\ LET r == Issue(inv[i], inv[i].pc, <<outcome>>)
     IN CASE outcome \in {"ok", "not ok"} ->
               Put(i, Render(Finish(r, "rendered"), ui, "subscribed"))
          [] outcome = "rejected" ->
               Put(i, subscribeCatch(r, ui, platform.permission))
  /\ UNCHANGED <<platform, qopVars, swVars, deployVars>>

\* fetch('/api/push/subscribe', POST) settles; the trace keeps the response
ResolvePostSubscribe(i, outcome) ==
  /\ Suspended(i, "postSubscribe")
  /\ LET r == Issue(inv[i], inv[i].pc, <<outcome>>)
     IN CASE outcome = "ok" ->
               Put(i, Render(Finish(r, "rendered"), ui, "subscribed"))
          [] outcome = "not ok" ->
               Put(i, [rec |-> Finish(r, "nothing"), ui |-> ui])
          [] outcome = "rejected" ->
               Put(i, subscribeCatch(r, ui, platform.permission))
  /\ UNCHANGED <<platform, qopVars, swVars, deployVars>>

\* sub.unsubscribe() settles
ResolveSubUnsubscribe(i, ok) ==
  /\ Suspended(i, "subUnsubscribe")
  /\ IF ok
     THEN /\ platform' = [platform EXCEPT !.subscription = FALSE]
          /\ inv' = [inv EXCEPT ![i] = Issue(@, "deleteUnsubscribe", <<"delete">>)]
          /\ UNCHANGED ui
     ELSE /\ Put(i, Throw(inv[i], ui))
          /\ UNCHANGED platform
  /\ UNCHANGED <<qopVars, swVars, deployVars>>

\* fetch('/api/push/unsubscribe', DELETE).catch(...) settles, either way
ResolveDeleteUnsubscribe(i, outcome) ==
  /\ Suspended(i, "deleteUnsubscribe")
  /\ Put(i, Render(Finish(inv[i], "rendered"), ui, "prompt"))
  /\ UNCHANGED <<platform, qopVars, swVars, deployVars>>

\* fetch('/api/push/test', POST) settles
ResolvePostTest(i, ok) ==
  /\ Suspended(i, "postTest")
  /\ IF ok
     THEN inv' = [inv EXCEPT ![i].pc = "respJson"]
     ELSE inv' = [inv EXCEPT ![i] = Reject(@)]
  /\ UNCHANGED <<ui, platform, qopVars, swVars, deployVars>>

\* resp.json() settles; sent is data.sent
ResolveRespJson(i, ok, sent) ==
  /\ Suspended(i, "respJson")
  /\ IF ok
     THEN inv' = [inv EXCEPT ![i] =
                    Finish(@, IF sent > 0 THEN "alert:test sent"
                              ELSE "alert:no subscriptions")]
     ELSE inv' = [inv EXCEPT ![i] = Reject(@)]
  /\ UNCHANGED <<ui, platform, qopVars, swVars, deployVars>>

\* a pending platform or network call of invocation i settles
Resolution ==
  \E i \in 1..(MaxInvocations + 1) :
    \/ ResolveGetRegistrations(i)
    \/ \E ok \in BOOLEAN : ResolveRegister(i, ok)
    \/ ResolveReady(i)
    \/ ResolveGetSubscription(i)
    \/ InitTimeout(i)
    \/ \E outcome \in {"granted", "denied", "error"} : ResolvePmSubscribe(i, outcome)
    \/ \E outcome \in PostOutcomes : ResolvePostSubscribe(i, outcome)
    \/ \E ok \in BOOLEAN : ResolveSubUnsubscribe(i, ok)
    \/ \E outcome \in {"ok", "rejected"} : ResolveDeleteUnsubscribe(i, outcome)
    \/ \E ok \in BOOLEAN : ResolvePostTest(i, ok)
    \/ \E ok \in BOOLEAN, sent \in 0..1 : ResolveRespJson(i, ok, sent)

NextPush ==
  \/ \E op \in UserOps : Invoke(op)
  \/ Resolution

\* the page load and the operations invoked after it, MaxCalls of them
NextPushOne ==
  \/ \E op \in UserOps : Len(inv) < MaxCalls + 1 /\ Invoke(op)
  \/ Resolution

\* ------------------------------------------------------------ service worker
\* src/static/js/service-worker.js.  Texts and URLs are sequences of tokens,
\* so that parsing and the substring search are computed.  sw holds the
\* displayed notifications, the window clients in the order matchAll returns
\* them, the number of push events delivered, and what the last push handler
\* and the last click handler did.

MaxPushes == 2

MaxClients == 2

Quote == "\""

Keys == {"title", "body", "url"}

Digits == {"7"}

Origin == <<"https://finlife">>

\* the absolute URL of a path of the application
Resolve(url) == Origin \o url

ClientUrls ==
  {Resolve(<<"/">>), Resolve(<<"/", "tasks">>), Resolve(<<"/", "tasks", "/", "123">>)}

PushTexts ==
  { <<"Hello">>,
    <<"{", "title", Quote, "Hi", Quote>>,
    <<"null">>,
    <<"7">>,
    <<Quote, "Hi", Quote>>,
    <<"{", "}">>,
    <<"{", "title", Quote, "Hi", Quote, "body", Quote, "B", Quote, "}">>,
    <<"{", "title", Quote, Quote, "url", Quote, "/", "tasks", Quote, "}">> }

PushEvents ==
  {[hasData |-> FALSE, text |-> <<>>]} \cup {[hasData |-> TRUE, text |-> t] : t \in PushTexts}

\* String.prototype.indexOf: the least offset at which t occurs in s, or -1
indexOf(s, t) ==
  LET hits == {k \in 0..(Len(s) - Len(t)) : SubSeq(s, k + 1, k + Len(t)) = t}
  IN IF hits = {} THEN -1 ELSE CHOOSE k \in hits : \A j \in hits : k <= j

Undefined == [has |-> FALSE, val |-> <<>>]

EmptyObject == [k \in Keys |-> Undefined]

SyntaxError == [kind |-> "SyntaxError", obj |-> EmptyObject]

\* the position of the first quote of t at or after k, 0 when there is none
RECURSIVE closing(_, _)
closing(t, k) ==
  IF k > Len(t) THEN 0 ELSE IF t[k] = Quote THEN k ELSE closing(t, k + 1)

\* the members of an object literal from position k on: a key and a quoted
\* string each, closed by the brace
RECURSIVE members(_, _, _)
members(t, k, obj) ==
  IF k > Len(t) THEN SyntaxError
  ELSE IF k = Len(t)
    THEN IF t[k] = "}" THEN [kind |-> "object", obj |-> obj] ELSE SyntaxError
  ELSE IF t[k] \in Keys /\ t[k + 1] = Quote /\ closing(t, k + 2) # 0
    THEN LET c == closing(t, k + 2)
         IN members(t, c + 1,
                    [obj EXCEPT ![t[k]] = [has |-> TRUE, val |-> SubSeq(t, k + 2, c - 1)]])
  ELSE SyntaxError

\* event.data.json(): the value the text denotes, or a SyntaxError
json(t) ==
  IF t = <<>> THEN SyntaxError
  ELSE IF t = <<"null">> THEN [kind |-> "null", obj |-> EmptyObject]
  ELSE IF Len(t) = 1 /\ t[1] \in Digits THEN [kind |-> "number", obj |-> EmptyObject]
  ELSE IF t[1] = Quote
    THEN IF Len(t) >= 2 /\ closing(t, 2) = Len(t)
         THEN [kind |-> "string", obj |-> EmptyObject]
         ELSE SyntaxError
  ELSE IF t[1] = "{" THEN members(t, 2, EmptyObject)
  ELSE SyntaxError

\* v || d
Or(v, d) == IF v.has /\ v.val # <<>> THEN v.val ELSE d

NoPush == [event |-> [hasData |-> FALSE, text |-> <<>>], shown |-> <<>>, threw |-> FALSE]

NoClick == [target |-> <<>>, before |-> <<>>, steps |-> <<>>, client |-> <<>>]

\* mutant of push: the fallback keeps no body
push_NoFallback(s, e) ==
  IF ~e.hasData
  THEN [s EXCEPT !.push = [event |-> e, shown |-> <<>>, threw |-> FALSE]]
  ELSE LET n == [title |-> <<"FinLife">>, body |-> <<>>, url |-> <<"/">>]
       IN [s EXCEPT !.notifications = Append(@, n),
                    !.push = [event |-> e, shown |-> <<n>>, threw |-> FALSE]]

\* the push listener; reading a property of null throws outside the try
push(s, e) ==
  IF ~e.hasData
  THEN [s EXCEPT !.push = [event |-> e, shown |-> <<>>, threw |-> FALSE]]
  ELSE LET parsed == json(e.text)
           data == IF parsed.kind = "SyntaxError"
                   THEN [kind |-> "object",
                         obj |-> [title |-> [has |-> TRUE, val |-> <<"FinLife">>],
                                  body |-> [has |-> TRUE, val |-> e.text],
                                  url |-> [has |-> TRUE, val |-> <<"/">>]]]
                   ELSE parsed
       IN IF data.kind = "null"
          THEN [s EXCEPT !.push = [event |-> e, shown |-> <<>>, threw |-> TRUE]]
          ELSE LET n == [title |-> Or(data.obj.title, <<"FinLife">>),
                         body |-> Or(data.obj.body, <<>>),
                         url |-> Or(data.obj.url, <<"/">>)]
               IN [s EXCEPT !.notifications = Append(@, n),
                            !.push = [event |-> e, shown |-> <<n>>, threw |-> FALSE]]

\* the sequence without its element at position n
Without(seq, n) == SubSeq(seq, 1, n - 1) \o SubSeq(seq, n + 1, Len(seq))

\* the notificationclick listener on the displayed notification n; the
\* client focused or opened becomes the most recently focused one
notificationclick(s, n) ==
  LET notification == s.notifications[n]
      url == IF notification.url # <<>> THEN notification.url ELSE <<"/">>
      windowClients == s.clients
      hits == {i \in 1..Len(windowClients) : indexOf(windowClients[i], url) # -1}
      closed == [s EXCEPT !.notifications = Without(@, n)]
  IN IF hits # {}
     THEN LET i == CHOOSE k \in hits : \A j \in hits : k <= j
          IN [closed EXCEPT
                !.clients = <<windowClients[i]>> \o Without(windowClients, i),
                !.click = [target |-> url, before |-> windowClients,
                           steps |-> <<"close", "focus">>, client |-> windowClients[i]]]
     ELSE [closed EXCEPT
             !.clients = <<Resolve(url)>> \o windowClients,
             !.click = [target |-> url, before |-> windowClients,
                        steps |-> <<"close", "open">>, client |-> Resolve(url)]]

\* the windows open when the worker starts
InitSw ==
  \E n \in 0..MaxClients : \E c \in [1..n -> ClientUrls] :
    sw = [notifications |-> <<>>, clients |-> c, delivered |-> 0,
          push |-> NoPush, click |-> NoClick]

\* a push message arrives
PushEvent(e) ==
  /\ sw.delivered < MaxPushes
  /\ sw' = [push(sw, e) EXCEPT !.delivered = @ + 1]
  /\ UNCHANGED <<qopVars, pushVars, deployVars>>

\* the user clicks the displayed notification n
NotificationClick(n) ==
  /\ n \in 1..Len(sw.notifications)
  /\ sw' = notificationclick(sw, n)
  /\ UNCHANGED <<qopVars, pushVars, deployVars>>

NextSw ==
  \/ \E e \in PushEvents : PushEvent(e)
  \/ \E n \in 1..MaxPushes : NotificationClick(n)

\* -------------------------------------------------------------- deploy script
\* src/deploy_prod.sh.  deploy holds the position of the script, the loop
\* variable i, the value of code, the number of probes made, whether a probe
\* answered 200, whether the logs were dumped, and the exit status (-1 while
\* the script runs).

Attempts == 30

\* what curl -sS -o /dev/null -w "%{http_code}" leaves: its exit status and
\* the text it writes; 000 is written when no response arrived
CurlOutcomes ==
  { [exit |-> 0, out |-> "200"],
    [exit |-> 0, out |-> "503"],
    [exit |-> 7, out |-> "000"] }

\* the exit statuses of a failing command
FailStatuses == {1, 128}

Exit(d, status) == [d EXCEPT !.pc = "exited", !.status = status]

InitDeployIdle ==
  deploy = [pc |-> "exited", i |-> 0, code |-> "", probes |-> 0,
            saw200 |-> FALSE, logs |-> FALSE, status |-> 0]

InitDeploy ==
  deploy = [pc |-> "cd", i |-> 0, code |-> "", probes |-> 0,
            saw200 |-> FALSE, logs |-> FALSE, status |-> -1]

\* a command of the script run under set -e: the script goes on when it
\* succeeds and exits with its status when it fails
Command(pc, next, status) ==
  /\ deploy.pc = pc
  /\ deploy' = IF status = 0 THEN [deploy EXCEPT !.pc = next] ELSE Exit(deploy, status)
  /\ UNCHANGED <<qopVars, pushVars, swVars>>

\* cd "$PROJECT_DIR"; the git report that follows cannot fail (|| true)
Cd(status) == Command("cd", "backup", status)

\* step 1: the backup script is run when it is executable, else exit 1
Backup(executable, status) ==
  /\ deploy.pc = "backup"
  /\ deploy' = IF ~executable THEN Exit(deploy, 1)
               ELSE IF status = 0 THEN [deploy EXCEPT !.pc = "pull"]
               ELSE Exit(deploy, status)
  /\ UNCHANGED <<qopVars, pushVars, swVars>>

\* step 2: git fetch and git pull --ff-only
Pull(status) == Command("pull", "build", status)

\* step 3: docker compose up -d --build; the loop starts with i = 1
Build(status) ==
  /\ deploy.pc = "build"
  /\ deploy' = IF status = 0 THEN [deploy EXCEPT !.pc = "curl", !.i = 1]
               ELSE Exit(deploy, status)
  /\ UNCHANGED <<qopVars, pushVars, swVars>>

\* mutant of Probe: a probe that curl completed counts as healthy
Probe_AnyResponse(c) ==
  /\ deploy.pc = "curl"
  /\ LET d == [deploy EXCEPT !.code = c.out, !.probes = @ + 1,
                             !.saw200 = @ \/ c.out = "200"]
     IN deploy' = IF c.exit = 0 THEN Exit(d, 0) ELSE [d EXCEPT !.pc = "sleep"]
  /\ UNCHANGED <<qopVars, pushVars, swVars>>

\* one probe: code takes what curl wrote, whatever curl's status (|| true);
\* exit 0 when it is 200
Probe(c) ==
  /\ deploy.pc = "curl"
  /\ LET d == [deploy EXCEPT !.code = c.out, !.probes = @ + 1,
                             !.saw200 = @ \/ c.out = "200"]
     IN deploy' = IF d.code = "200" THEN Exit(d, 0) ELSE [d EXCEPT !.pc = "sleep"]
  /\ UNCHANGED <<qopVars, pushVars, swVars>>

\* sleep 2 and the next turn of for i in {1..30}
Sleep ==
  /\ deploy.pc = "sleep"
  /\ deploy' = IF deploy.i < Attempts
               THEN [deploy EXCEPT !.pc = "curl", !.i = @ + 1]
               ELSE [deploy EXCEPT !.pc = "logs"]
  /\ UNCHANGED <<qopVars, pushVars, swVars>>

\* the last logs of the app, whose failure is ignored, then exit 1
Logs ==
  /\ deploy.pc = "logs"
  /\ deploy' = Exit([deploy EXCEPT !.logs = TRUE], 1)
  /\ UNCHANGED <<qopVars, pushVars, swVars>>

NextDeploy ==
  \/ \E status \in {0} \cup FailStatuses : Cd(status)
  \/ \E executable \in BOOLEAN, status \in {0} \cup FailStatuses : Backup(executable, status)
  \/ \E status \in {0} \cup FailStatuses : Pull(status)
  \/ \E status \in {0} \cup FailStatuses : Build(status)
  \/ \E c \in CurlOutcomes : Probe(c)
  \/ Sleep
  \/ Logs

\* ---------------------------------------------------------- specifications
\* the push manager at rest while the quick-operation dialog is explored
InitPushIdle ==
  /\ inv = <<>>
  /\ platform = [supported |-> FALSE, permission |-> "default", vapidKey |-> FALSE,
                 registered |-> FALSE, subscription |-> FALSE]
  /\ ui = BlankUI

\* the service worker at rest
InitSwIdle ==
  sw = [notifications |-> <<>>, clients |-> <<>>, delivered |-> 0,
        push |-> NoPush, click |-> NoClick]

\* the dialog at rest while the push manager is explored
InitQopIdle ==
  /\ allCategoryOptions = <<>>
  /\ dom = [menuHidden |-> TRUE, ariaExpanded |-> "false", qopOpen |-> FALSE,
            qopType |-> "", qopTitle |-> "", walletRowDisplay |-> "",
            fromRowDisplay |-> "", toRowDisplay |-> "", categoryRowDisplay |-> "",
            qopWalletDisabled |-> FALSE, qopFromDisabled |-> FALSE,
            qopToDisabled |-> FALSE, options |-> <<Placeholder>>,
            selectedIndex |-> 1, qopAmount |-> "", qopDesc |-> "",
            qopOccurredAt |-> "", focus |-> "none"]
  /\ lastEvent = NoEvent

Init == InitQop /\ InitPushIdle /\ InitSwIdle /\ InitDeployIdle

Next == NextQop

Spec == Init /\ [][Next]_vars

InitP == InitQopIdle /\ InitPush /\ InitSwIdle /\ InitDeployIdle

SpecPush == InitP /\ [][NextPush]_vars

SpecPushOne == InitP /\ [][NextPushOne]_vars

\* setTimeout: the timer of init() fires unless the race settled before
SpecPushFair == InitP /\ [][NextPushOne]_vars /\ WF_vars(InitTimeout(1))

InitSW == InitQopIdle /\ InitPushIdle /\ InitSw /\ InitDeployIdle

SpecSW == InitSW /\ [][NextSw]_vars

InitD == InitQopIdle /\ InitPushIdle /\ InitSwIdle /\ InitDeploy

\* the shell runs the script's commands one after the other, each returning
SpecDeploy == InitD /\ [][NextDeploy]_vars /\ WF_vars(NextDeploy)

OutsideClickAny == \E target \in {"page", "dialog"} : OutsideClick(target)

CloseControlClickAny ==
  \E control \in {"qopClose", "qopCancelBtn"}, inDialog \in BOOLEAN :
    CloseControlClick(control, inDialog)

\* the state openModal(type) leaves and no later openModal has replaced
OpenedOnce(type) == dom.qopType = type

\* ------------------------------------------------------ QuickOp properties
OpenedWith(type) == lastEvent.op = "openModal" /\ lastEvent.type = type

OptionOf(cat) == [value |-> cat.value, label |-> cat.label]

\* the catalog entries of one type, as options, in catalog order
Presented(type) ==
  LET HasType(cat) == cat.type = type
      sel == SelectSeq(allCategoryOptions, HasType)
  IN [i \in 1..Len(sel) |-> OptionOf(sel[i])]

\* C1: right after openModal(T) the rows shown are exactly those of T:
\* TRANSFER shows the from- and to-wallet rows and hides the single-wallet
\* and category rows, INCOME and EXPENSE show the single-wallet and category
\* rows and hide the from- and to-wallet rows.
C1_Visibility ==
  \A type \in OperationTypes :
    OpenedWith(type) =>
      IF type = "TRANSFER"
      THEN /\ dom.fromRowDisplay = "" /\ dom.toRowDisplay = ""
           /\ dom.walletRowDisplay = "none" /\ dom.categoryRowDisplay = "none"
      ELSE /\ dom.walletRowDisplay = "" /\ dom.categoryRowDisplay = ""
           /\ dom.fromRowDisplay = "none" /\ dom.toRowDisplay = "none"

C1_Witness ==
  /\ OpenedWith("TRANSFER")
  /\ lastEvent.prevType = "INCOME"
  /\ dom.categoryRowDisplay = "none"

\* C2: after openModal(T), T INCOME or EXPENSE, reached through any earlier
\* events, the category select is the placeholder followed by exactly the
\* catalog entries of type T, each once, in catalog order.
C2_CategoryList ==
  \A type \in CategoryTypes :
    OpenedWith(type) => dom.options = <<Placeholder>> \o Presented(type)

C2_Witness ==
  /\ OpenedWith("INCOME")
  /\ lastEvent.prevType = "TRANSFER"
  /\ Len(dom.options) > 1
  /\ Len(dom.options) < Len(allCategoryOptions) + 1

\* C3 as claimed: after openModal(TRANSFER) the category select holds the
\* placeholder and no catalog entry.
C3_Original ==
  OpenedWith("TRANSFER") => dom.options = <<Placeholder>>

\* C3, amended: openModal(TRANSFER) does not rebuild the category select; it
\* leaves the option list as it found it, hides the category row and
\* selects the placeholder.
C3_TransferKeepsList ==
  [][MenuItemClick("TRANSFER") =>
       /\ dom'.options = dom.options
       /\ dom'.categoryRowDisplay = "none"
       /\ dom'.selectedIndex = 1
       /\ SelectValue(dom') = ""]_vars

C3_Witness ==
  /\ OpenedWith("TRANSFER")
  /\ lastEvent.prevType = "EXPENSE"
  /\ Len(dom.options) > 1

\* C4: rebuilding is idempotent and keeps the placeholder: opening the
\* modal with the type already active leaves the option list as it is, and
\* in every state the list holds exactly one "no category" placeholder, as
\* its first entry.
C4_Idempotent ==
  /\ [](/\ dom.options # <<>>
        /\ dom.options[1] = Placeholder
        /\ Cardinality({i \in 1..Len(dom.options) : dom.options[i].value = ""}) = 1)
  /\ [][\A type \in OperationTypes :
          MenuItemClick(type) /\ OpenedOnce(type) => dom'.options = dom.options]_vars

C4_Witness ==
  /\ OpenedWith("EXPENSE")
  /\ lastEvent.prevType = "EXPENSE"
  /\ Len(dom.options) > 1

\* C5: after every openModal the amount, description, category and
\* occurredAt fields are empty, whatever they held before; the selected
\* category is the placeholder, an option of the presented list.
C5_FieldsReset ==
  lastEvent.op = "openModal" =>
    /\ dom.qopAmount = ""
    /\ dom.qopDesc = ""
    /\ dom.qopOccurredAt = ""
    /\ SelectValue(dom) = ""
    /\ dom.selectedIndex = 1
    /\ dom.options[dom.selectedIndex] = Placeholder

C5_Witness ==
  /\ lastEvent.op = "openModal"
  /\ lastEvent.prevDirty
  /\ lastEvent.prevType # lastEvent.type
  /\ lastEvent.type \in CategoryTypes

\* C6 as claimed: while the modal stays open (no closeModal in between) no
\* event changes the active type.
C6_Original ==
  [][dom.qopOpen /\ dom'.qopOpen => dom'.qopType = dom.qopType]_vars

\* C6, amended: the active type changes only when a menu item is clicked,
\* which runs openModal with the item's type, also while the modal is open;
\* a click on the dropdown button, an outside click, Escape, the close
\* controls and edits of the form never change it.
C6_TypeSetOnlyByOpenModal ==
  [][/\ dom'.qopType # dom.qopType =>
          \E type \in OperationTypes : MenuItemClick(type) /\ dom'.qopType = type
     /\ (BtnClick \/ KeydownEscape \/ BackdropClick
           \/ (\E target \in {"page", "dialog"} : OutsideClick(target)))
          => dom'.qopType = dom.qopType]_vars

C6_Witness ==
  /\ OpenedWith("EXPENSE")
  /\ lastEvent.prevType = "INCOME"
  /\ lastEvent.prevOpen

\* C7: the dropdown is closed after a click outside the wrapper, after
\* Escape while the modal is not open and after a menu item selection
\* (which opens the modal with the selected type); a click on the trigger
\* button toggles it; Escape while the modal is open leaves it as it is.
C7_Dropdown ==
  [][/\ (OutsideClickAny \/ BackdropClick) => dom'.menuHidden
     /\ KeydownEscape /\ ~dom.qopOpen => dom'.menuHidden
     /\ \A type \in OperationTypes :
          MenuItemClick(type) =>
            dom'.menuHidden /\ dom'.qopOpen /\ dom'.qopType = type
     /\ BtnClick => dom'.menuHidden = ~dom.menuHidden
     /\ KeydownEscape /\ dom.qopOpen => dom'.menuHidden = dom.menuHidden]_vars

C7_Witness ==
  /\ lastEvent.op = "escape"
  /\ lastEvent.prevOpen
  /\ ~lastEvent.prevMenuHidden
  /\ ~dom.menuHidden

Closed(d) == d.menuHidden /\ ~d.qopOpen

\* C8 as claimed: a click outside (on the backdrop, or on the page while
\* the modal is closed), Escape and the close and cancel controls each lead
\* to the closed state, dropdown closed and modal closed.
C8_Original ==
  [][(\/ BackdropClick
      \/ (OutsideClick("page") /\ ~dom.qopOpen)
      \/ KeydownEscape
      \/ CloseControlClickAny) => Closed(dom')]_vars

\* C8, amended: the initial state is closed; a click on the backdrop
\* outside the dialog or on the close or cancel control leads to the closed
\* state; any other click outside the wrapper closes the dropdown and
\* leaves the modal as it is; Escape closes the modal when it is open and
\* the dropdown otherwise, so from dropdown open and modal open it leaves
\* the dropdown open.
C8_Closing ==
  /\ Closed(dom)
  /\ [][/\ (BackdropClick \/ CloseControlClickAny) => Closed(dom')
        /\ OutsideClickAny => dom'.menuHidden /\ dom'.qopOpen = dom.qopOpen
        /\ KeydownEscape =>
             IF dom.qopOpen
             THEN ~dom'.qopOpen /\ dom'.menuHidden = dom.menuHidden
             ELSE Closed(dom')]_vars

C8_Witness ==
  /\ lastEvent.op = "backdrop"
  /\ lastEvent.prevOpen
  /\ ~lastEvent.prevMenuHidden
  /\ Closed(dom)

\* C9: closeModal is idempotent: in every reachable state a second call
\* changes nothing after the first, which leaves the modal hidden and the
\* focus on the trigger button; called on a closed modal it changes neither
\* the dropdown, the active type nor any form field.
C9_CloseIdempotent ==
  LET c == closeModal(dom)
  IN /\ closeModal(c) = c
     /\ ~c.qopOpen
     /\ c.focus = "btn"
     /\ ~dom.qopOpen => c = [dom EXCEPT !.focus = "btn"]
     /\ lastEvent.op \in {"qopClose", "qopCancelBtn", "backdrop"} =>
          ~dom.qopOpen /\ dom.focus = "btn"

C9_Witness ==
  /\ lastEvent.op = "qopCancelBtn"
  /\ lastEvent.prevDirty
  /\ ~dom.qopOpen
  /\ dom.focus = "btn"
  /\ dom.qopAmount # ""

\* the wallet selects a submission of the form carries: those not disabled
SubmittedWallets ==
  {w \in {"wallet", "from", "to"} :
     ~(CASE w = "wallet" -> dom.qopWalletDisabled
         [] w = "from" -> dom.qopFromDisabled
         [] w = "to" -> dom.qopToDisabled)}

\* C24: after any sequence of openModal calls the enabled wallet selects
\* are exactly the visible ones: the single-wallet select is disabled iff
\* the active type is TRANSFER, the from and to selects iff it is not, so
\* the form carries no wallet field of the other mode.
C24_WalletSelects ==
  dom.qopType # "" =>
    /\ dom.qopWalletDisabled <=> dom.qopType = "TRANSFER"
    /\ dom.qopFromDisabled <=> dom.qopType # "TRANSFER"
    /\ dom.qopToDisabled <=> dom.qopType # "TRANSFER"
    /\ dom.qopWalletDisabled <=> dom.walletRowDisplay = "none"
    /\ dom.qopFromDisabled <=> dom.fromRowDisplay = "none"
    /\ dom.qopToDisabled <=> dom.toRowDisplay = "none"
    /\ SubmittedWallets = IF dom.qopType = "TRANSFER" THEN {"from", "to"} ELSE {"wallet"}

C24_Witness ==
  /\ lastEvent.op = "openModal"
  /\ lastEvent.prevType = "TRANSFER"
  /\ dom.qopType = "EXPENSE"
  /\ SubmittedWallets = {"wallet"}

\* ------------------------------------------- PushSubscriptionManager properties
InFlight == {i \in 1..Len(inv) : inv[i].op \in UserOps /\ inv[i].pc \notin Settled}

\* C10: operations of the push manager never run concurrently: no
\* subscribe, unsubscribe, toggle or sendTest invocation is started while an
\* earlier one is still suspended at one of its awaits.
C10_Original == Cardinality(InFlight) <= 1

Invocations == 1..Len(inv)

Range(seq) == {seq[k] : k \in 1..Len(seq)}

IsPrefix(a, b) == Len(a) <= Len(b) /\ SubSeq(b, 1, Len(a)) = a

Alerts == {"alert:subscribe failed", "alert:no VAPID key", "alert:not supported"}

\* C11: a subscribe() that settles without rendering "subscribed" either
\* rendered "denied", the permission being denied, or raised an alert and
\* rendered nothing: without platform support, without the key, when the
\* platform subscribe rejects, when the service worker cannot be registered
\* and when the POST fails or answers non-2xx.
C11_Original ==
  \A i \in Invocations :
    inv[i].fn = "subscribe" /\ inv[i].pc \in Settled /\ inv[i].shown # "subscribed" =>
      \/ inv[i].shown = "denied" /\ platform.permission = "denied"
      \/ inv[i].result \in Alerts /\ inv[i].shown = ""

\* the calls of subscribe() in the order of its source, the registration
\* being needed or not, closed by the response to the POST
SubscribeOrders ==
  {o \o <<x>> : o \in {<<"getRegistrations", "register", "key", "subscribe", "post">>,
                       <<"getRegistrations", "key", "subscribe", "post">>},
                x \in PostOutcomes}

\* C12: subscribe() ensures the registration, decodes the key, subscribes
\* at the platform, POSTs to /api/push/subscribe and renders, in this order,
\* and renders "subscribed" only once the platform subscription was created
\* and the POST answered 2xx.
C12_SubscribeOrder ==
  \A i \in Invocations :
    inv[i].fn = "subscribe" =>
      /\ \E o \in SubscribeOrders : IsPrefix(inv[i].trace, o)
      /\ inv[i].shown = "subscribed" =>
           /\ inv[i].trace \in SubscribeOrders
           /\ inv[i].trace[Len(inv[i].trace)] = "ok"
           /\ inv[i].pc = "done"
      /\ inv[i].pc = "postSubscribe" => platform.permission = "granted"

C12_Witness ==
  \E i \in Invocations :
    /\ inv[i].fn = "subscribe"
    /\ inv[i].shown = "subscribed"
    /\ "register" \in Range(inv[i].trace)
    /\ ui.rendered = "subscribed"

\* C13: with the public key unset, subscribe() never calls the platform
\* subscribe, sends no POST and renders nothing: no step of it changes the UI.
C13_NoKey ==
  /\ [](~platform.vapidKey =>
          \A i \in Invocations :
            inv[i].fn = "subscribe" =>
              /\ inv[i].pc \notin {"pmSubscribe", "postSubscribe"}
              /\ Range(inv[i].trace) \cap {"subscribe", "post"} = {}
              /\ inv[i].shown = "")
  /\ [][~platform.vapidKey =>
          /\ \A i \in Invocations :
               inv'[i].fn = "subscribe" /\ inv'[i] # inv[i] => ui' = ui
          /\ Len(inv') > Len(inv) /\ inv'[Len(inv')].fn = "subscribe" => ui' = ui]_vars

C13_Witness ==
  /\ ~platform.vapidKey
  /\ \E i \in Invocations :
       /\ inv[i].op = "subscribe"
       /\ inv[i].result = "alert:no VAPID key"
       /\ inv[i].trace = <<"getRegistrations", "register", "key">>

\* C14: unsubscribe() always ends in "prompt"; finding a live subscription,
\* it revokes it at the platform first and then sends the DELETE, whose
\* failure is swallowed.  Stated for the invocations that found a live
\* subscription; those that found none are the case of C15.
C14_Original ==
  \A i \in Invocations :
    /\ inv[i].fn = "unsubscribe"
    /\ inv[i].pc \in Settled
    /\ "unsubscribe" \in Range(inv[i].trace)
    => /\ inv[i].pc = "done"
       /\ inv[i].shown = "prompt"
       /\ IsPrefix(<<"getRegistrations", "getSubscription", "unsubscribe", "delete">>,
                   inv[i].trace)

\* C15: unsubscribe() that finds no live subscription never rejects, calls
\* neither the platform unsubscribe nor the DELETE, and ends in "prompt".
C15_Original ==
  \A i \in Invocations :
    /\ inv[i].fn = "unsubscribe"
    /\ inv[i].pc \in Settled
    /\ "unsubscribe" \notin Range(inv[i].trace)
    => /\ inv[i].pc = "done"
       /\ inv[i].shown = "prompt"
       /\ "delete" \notin Range(inv[i].trace)

\* C16: init() renders exactly one state, also when the readiness of the
\* service worker never resolves: the timer firing first, or the probe
\* rejecting, renders "prompt", and once init() has rendered, no later
\* result of the probe renders again.
C16_InitRendersOnce ==
  /\ [][inv'[1] # inv[1] =>
          /\ inv[1].shown # "" => ui' = ui /\ inv'[1].shown = inv[1].shown
          /\ InitTimeout(1) => inv'[1].shown = "prompt" /\ ui'.rendered = "prompt"
          /\ inv[1].pc = "register" /\ inv'[1].pc = "done" /\ ~inv[1].raced =>
               inv'[1].shown = "prompt" /\ ui'.rendered = "prompt"]_vars
  /\ [](inv[1].pc = "done" => inv[1].shown # "")
  /\ <>(inv[1].shown # "")

C16_Witness ==
  /\ inv[1].raced
  /\ inv[1].pc = "done"
  /\ inv[1].shown = "prompt"
  /\ platform.subscription
  /\ Len(inv) = 1
  /\ ui.rendered = "prompt"

\* C17: init() renders "unsupported" without push or service workers and
\* "denied", the button disabled and the explanation shown, when the
\* permission is denied at load; in both cases it looks up no registration,
\* queries no subscription and calls no platform subscribe.
C17_InitEarlyExit ==
  /\ ~platform.supported => inv[1].shown = "unsupported"
  /\ Len(inv) = 1 /\ ~platform.supported =>
       ui.rendered = "unsupported" /\ ui.disabled
  /\ Len(inv) = 1 /\ platform.supported /\ platform.permission = "denied" =>
       /\ inv[1].shown = "denied"
       /\ ui.rendered = "denied"
       /\ ui.disabled
       /\ ui.status = "Allow in browser settings"
  /\ inv[1].shown \in {"unsupported", "denied"} =>
       inv[1].pc = "done" /\ inv[1].trace = <<>>

C17_Witness ==
  /\ Len(inv) = 2
  /\ inv[1].shown = "denied"
  /\ inv[1].trace = <<>>
  /\ platform.supported

\* C18: what the button shows depends only on the state rendered last:
\* label, class, disabled flag and status text are those of that state, the
\* button disabled exactly for "denied" and "unsupported".
C18_Original ==
  ui.rendered # "none" =>
    /\ ui = updateUI(BlankUI, ui.rendered)
    /\ ui.disabled <=> ui.rendered \in {"denied", "unsupported"}

\* the operations that subscribe or unsubscribe
Toggling == {"subscribe", "unsubscribe", "toggle"}

\* C22: once every subscribe, unsubscribe and toggle invocation has
\* completed, whatever their number, their interleaving and the answers of
\* the backend, the rendered state is "subscribed" exactly when a live
\* platform subscription exists, the platform being supported and the
\* permission not denied: the button offers what toggle() would do.
C22_Original ==
  /\ \E i \in Invocations : inv[i].op \in Toggling
  /\ \A i \in Invocations : inv[i].pc \in Settled
  /\ platform.supported
  /\ platform.permission # "denied"
  => (ui.rendered = "subscribed" <=> platform.subscription)

\* ------------------------------------------------- service worker properties

\* the last click handler found a window showing the target
ShowingTarget ==
  \E i \in 1..Len(sw.click.before) : sw.click.before[i] = Resolve(sw.click.target)

\* C19: a notification click closes the notification first and then does
\* exactly one thing: it focuses a client showing the target URL when one is
\* open, opening no window, and otherwise opens a window at the target URL;
\* a focused client is always one whose URL is the target.
C19_Original ==
  sw.click.steps # <<>> =>
    /\ sw.click.steps \in {<<"close", "focus">>, <<"close", "open">>}
    /\ sw.click.steps[2] = "focus" <=> ShowingTarget
    /\ sw.click.client = Resolve(sw.click.target)

NonJsonTexts == {<<"Hello">>, <<"{", "title", Quote, "Hi", Quote>>}

FallbackNotification(text) ==
  [title |-> <<"FinLife">>, body |-> text, url |-> <<"/">>]

\* C20: a push event whose payload is not valid JSON displays exactly one
\* notification, titled "FinLife", with the raw payload text as body and
\* "/" as target URL.
C20_NonJsonFallback ==
  /\ [](sw.push.event.hasData /\ sw.push.event.text \in NonJsonTexts =>
          sw.push.shown = <<FallbackNotification(sw.push.event.text)>>)
  /\ [][\A e \in PushEvents :
          e.hasData /\ e.text \in NonJsonTexts /\ PushEvent(e) =>
            sw'.notifications =
              Append(sw.notifications, FallbackNotification(e.text))]_vars

C20_Witness ==
  /\ sw.push.event.hasData
  /\ sw.push.event.text = <<"Hello">>
  /\ Len(sw.notifications) = 2
  /\ sw.notifications[2] = FallbackNotification(<<"Hello">>)

\* what the handler shows when title, body and url are all absent
DefaultNotification == [title |-> <<"FinLife">>, body |-> <<>>, url |-> <<"/">>]

\* C23: no push event carrying a payload is dropped: whatever the payload,
\* text that is not JSON, an object with or without title, body and url, or
\* JSON denoting null, a number or a string, the handler displays exactly
\* one notification, the title defaulting to "FinLife", the body to the
\* empty string and the URL to "/"; only an event without payload displays
\* nothing.
C23_Original ==
  sw.delivered > 0 =>
    /\ Len(sw.push.shown) = (IF sw.push.event.hasData THEN 1 ELSE 0)
    /\ ~sw.push.threw
    /\ sw.push.event.hasData
         /\ sw.push.event.text \in {<<"null">>, <<"7">>, <<Quote, "Hi", Quote>>, <<"{", "}">>}
         => sw.push.shown = <<DefaultNotification>>

\* ---------------------------------------------------- deploy script properties

\* C21: the health check ends after at most 30 probes: the script exits 0
\* at the first probe answering 200 and probes no more; when none of the 30
\* probes answers 200, a failing curl included, it dumps the logs and exits
\* non-zero; it never exits 0 without having seen a 200.
C21_HealthCheck ==
  /\ [](/\ deploy.probes <= Attempts
        /\ deploy.saw200 =>
             deploy.pc = "exited" /\ deploy.status = 0 /\ deploy.code = "200"
        /\ deploy.pc = "exited" /\ deploy.status = 0 => deploy.saw200
        /\ deploy.logs => deploy.probes = Attempts /\ ~deploy.saw200
        /\ deploy.pc = "exited" /\ deploy.probes > 0 /\ ~deploy.saw200 =>
             deploy.logs /\ deploy.status # 0 /\ deploy.probes = Attempts)
  /\ [][deploy.pc = "exited" => deploy' = deploy]_vars
  /\ <>(deploy.pc = "exited")

C21_Witness ==
  /\ deploy.pc = "exited"
  /\ deploy.probes = Attempts
  /\ deploy.code = "000"
  /\ deploy.logs
  /\ deploy.status = 1

====
